---- MODULE Spec2Model ----
(***************************************************************************)
(* Model of update_clearance.py: one run of main(), which fetches the      *)
(* clearance sheet, parses it row by row into products and writes          *)
(* clearance_data.json.                                                    *)
(*                                                                         *)
(* Texts (cells, labels, category names) are sequences of one-character    *)
(* strings, so that strip, replace, lower, substring search and int() are  *)
(* computed character by character.  A fetched text is represented by the  *)
(* rows csv.reader yields for it (a row is a sequence of cells); the empty *)
(* text is the only one that yields no row.  Python positions are 0-based: *)
(* cell k of a row is row[k + 1] here.                                     *)
(***************************************************************************)
EXTENDS Integers, Sequences, FiniteSets, TLC

(* ---------------------------- bounds ----------------------------------- *)

\* Longest sheet (in rows) of the exhaustively enumerated sheets.
MaxRows == 4

\* Longest quantity cell (in characters) of the enumerated quantity cells.
MaxQtyLen == 2

(* ------------------------- Python values ------------------------------- *)

\* header_row_idx before a header is found; main's status before it returns.
None == -1

\* fetch_sheet_csv's "return None".
NoData == [is_none |-> TRUE, rows |-> <<>>]

\* A decoded response body, given by its rows.
Text(rs) == [is_none |-> FALSE, rows |-> rs]

\* str.isspace for the characters used.
Whitespace == {" ", "\n", "\t", "\r"}

UpperCase ==
  <<"A", "B", "C", "D", "E", "F", "G", "H", "I", "J", "K", "L", "M",
    "N", "O", "P", "Q", "R", "S", "T", "U", "V", "W", "X", "Y", "Z">>

LowerCase ==
  <<"a", "b", "c", "d", "e", "f", "g", "h", "i", "j", "k", "l", "m",
    "n", "o", "p", "q", "r", "s", "t", "u", "v", "w", "x", "y", "z">>

\* The lower-case letter of every upper-case letter.
LowerOf ==
  [c \in { UpperCase[k] : k \in 1..Len(UpperCase) } |->
     LowerCase[CHOOSE k \in 1..Len(UpperCase) : UpperCase[k] = c]]

lower_char(c) == IF c \in DOMAIN LowerOf THEN LowerOf[c] ELSE c

\* str.lower()
lower(s) == [k \in 1..Len(s) |-> lower_char(s[k])]

\* str.strip(): drop leading and trailing whitespace.
RECURSIVE lstrip(_)
lstrip(s) ==
  IF s = <<>> THEN <<>>
  ELSE IF Head(s) \in Whitespace THEN lstrip(Tail(s)) ELSE s

RECURSIVE rstrip(_)
rstrip(s) ==
  IF s = <<>> THEN <<>>
  ELSE IF s[Len(s)] \in Whitespace THEN rstrip(SubSeq(s, 1, Len(s) - 1)) ELSE s

strip(s) == rstrip(lstrip(s))

\* str.replace('\n', ' ')
RECURSIVE replace_newlines(_)
replace_newlines(s) ==
  IF s = <<>> THEN <<>>
  ELSE <<IF Head(s) = "\n" THEN " " ELSE Head(s)>> \o replace_newlines(Tail(s))

\* str.startswith(prefix)
startswith(s, prefix) ==
  Len(prefix) <= Len(s) /\ SubSeq(s, 1, Len(prefix)) = prefix

\* the Python test "sub in s" on strings
contains(s, sub) ==
  \E k \in 0..(Len(s) - Len(sub)) : SubSeq(s, k + 1, k + Len(sub)) = sub

\* re.sub(r'[,\s]', '', value)
RECURSIVE remove_commas_and_spaces(_)
remove_commas_and_spaces(s) ==
  IF s = <<>> THEN <<>>
  ELSE IF Head(s) = "," \/ Head(s) \in Whitespace
       THEN remove_commas_and_spaces(Tail(s))
       ELSE <<Head(s)>> \o remove_commas_and_spaces(Tail(s))

(* --------------------------- int(text) --------------------------------- *)

DigitChars == <<"0", "1", "2", "3", "4", "5", "6", "7", "8", "9">>

is_digit(c) == \E k \in 1..Len(DigitChars) : DigitChars[k] = c

digit_value(c) == (CHOOSE k \in 1..Len(DigitChars) : DigitChars[k] = c) - 1

\* Digits with single underscores between them, as int() accepts.
RECURSIVE is_digit_run(_)
is_digit_run(s) ==
  /\ s # <<>>
  /\ is_digit(Head(s))
  /\ \/ Len(s) = 1
     \/ is_digit_run(Tail(s))
     \/ Len(s) > 2 /\ s[2] = "_" /\ is_digit_run(Tail(Tail(s)))

\* Value of a digit run, most significant digit first, acc the value so far.
RECURSIVE digit_run_value(_, _)
digit_run_value(s, acc) ==
  IF s = <<>> THEN acc
  ELSE IF Head(s) = "_" THEN digit_run_value(Tail(s), acc)
  ELSE digit_run_value(Tail(s), 10 * acc + digit_value(Head(s)))

\* int(s) for a text without whitespace: [raises, value]; raises stands for
\* ValueError.
py_int(s) ==
  LET signed == s # <<>> /\ Head(s) \in {"+", "-"}
      body == IF signed THEN Tail(s) ELSE s
  IN  IF is_digit_run(body)
      THEN [raises |-> FALSE,
            value |-> IF signed /\ Head(s) = "-"
                      THEN 0 - digit_run_value(body, 0)
                      ELSE digit_run_value(body, 0)]
      ELSE [raises |-> TRUE, value |-> 0]

\* parse_int with the re.sub left out: int() is given the raw cell.
parse_int_uncleaned(value) ==
  IF value = <<>> THEN 0
  ELSE LET parsed == py_int(value)
       IN  IF parsed.raises THEN 0 ELSE parsed.value

parse_int(value) ==
  IF value = <<>> THEN 0
  ELSE LET cleaned == remove_commas_and_spaces(value)
           parsed == py_int(cleaned)
       IN  IF parsed.raises THEN 0 ELSE parsed.value

(* -------------------------- map_category ------------------------------- *)

c_AreaLight == <<"A", "r", "e", "a", " ", "L", "i", "g", "h", "t">>

c_LinearHighBay ==
  <<"L", "i", "n", "e", "a", "r", " ", "H", "i", "g", "h", " ", "B", "a", "y">>

c_RoundHighBay ==
  <<"R", "o", "u", "n", "d", " ", "H", "i", "g", "h", " ", "B", "a", "y">>

c_Wraparound == <<"W", "r", "a", "p", "a", "r", "o", "u", "n", "d">>

c_StripLight == <<"S", "t", "r", "i", "p", " ", "L", "i", "g", "h", "t">>

c_Accessories == <<"A", "c", "c", "e", "s", "s", "o", "r", "i", "e", "s">>

c_Vaportight == <<"V", "a", "p", "o", "r", "t", "i", "g", "h", "t">>

\* The dict in its declared (insertion) order.
CATEGORY_MAP ==
  <<
    [key |-> <<"A", "r", "e", "a", " ", "L", "i", "g", "h", "t">>,
     value |-> c_AreaLight],
    [key |-> <<"A", "L", "2">>,
     value |-> c_AreaLight],
    [key |-> <<"A", "L", "2", "N">>,
     value |-> c_AreaLight],
    [key |-> <<"T", "w", "i", "n", " ", "L", "e", "n", "s", " ",
               "H", "i", "g", "h", " ", "B", "a", "y">>,
     value |-> c_LinearHighBay],
    [key |-> <<"L", "i", "m", "i", "t", "e", "d", " ", "S", "t", "o", "c", "k",
               " ", "-", " ", "L", "i", "n", "e", "a", "r", " ",
               "H", "i", "g", "h", " ", "B", "a", "y">>,
     value |-> c_LinearHighBay],
    [key |-> <<"L", "i", "m", "i", "t", "e", "d", " ", "S", "t", "o", "c", "k",
               " ", "-", " ", "H", "i", "g", "h", " ", "B", "a", "y", " ", "-",
               " ", "L", "i", "n", "e", "a", "r", " ",
               "F", "i", "x", "t", "u", "r", "e", "s">>,
     value |-> c_LinearHighBay],
    [key |-> <<"H", "i", "g", "h", " ", "B", "a", "y", " ", "-", " ",
               "R", "o", "u", "n", "d", " ", "L", "i", "m", "i", "t", "e", "d",
               " ", "S", "t", "o", "c", "k">>,
     value |-> c_RoundHighBay],
    [key |-> <<"H", "B", "U", "3", " ",
               "A", "c", "c", "e", "s", "s", "o", "r", "i", "e", "s">>,
     value |-> c_RoundHighBay],
    [key |-> <<"P", "T", "-", "W", "A", "A", " ",
               "S", "e", "r", "i", "e", "s", " ", "-">>,
     value |-> c_Wraparound],
    [key |-> <<"L", "i", "m", "i", "t", "e", "d", " ", "S", "t", "o", "c", "k",
               " ", "S", "t", "r", "i", "p", " ", "L", "i", "g", "h", "t">>,
     value |-> c_StripLight],
    [key |-> <<"L", "S", "F", "A">>,
     value |-> c_StripLight],
    [key |-> <<"A", "c", "c", "e", "s", "s", "o", "r", "i", "e", "s">>,
     value |-> c_Accessories],
    [key |-> <<"L", "i", "m", "i", "t", "e", "d", " ", "S", "t", "o", "c", "k",
               " ", "-", " ", "V", "a", "p", "o", "r", " ",
               "T", "i", "g", "h", "t">>,
     value |-> c_Vaportight]
  >>

\* The test with the two lower() calls left out.
key_matches_case_sensitive(key, raw_category) == contains(raw_category, key)

\* The test of the loop body for one dict entry.
key_matches(key, raw_category) == contains(lower(raw_category), lower(key))

\* The for loop of map_category from entry k on.
RECURSIVE map_category_from(_, _)
map_category_from(k, raw_category) ==
  IF k > Len(CATEGORY_MAP) THEN raw_category
  ELSE IF key_matches(CATEGORY_MAP[k].key, raw_category)
       THEN CATEGORY_MAP[k].value
       ELSE map_category_from(k + 1, raw_category)

map_category(raw_category) == map_category_from(1, raw_category)

(* ----------------------- parse_clearance_csv --------------------------- *)

s_ItemSku == <<"I", "t", "e", "m", "#", " ", "/", " ", "S", "K", "U">>

s_Item == <<"I", "t", "e", "m", "#">>

s_NA == <<"#", "N", "/", "A">>

s_http == <<"h", "t", "t", "p">>

s_ClearanceStock ==
  <<"C", "l", "e", "a", "r", "a", "n", "c", "e", " ", "S", "t", "o", "c", "k">>

\* The condition of the header search for one row.
is_header(row) ==
  Len(row) > 1 /\ (contains(row[2], s_ItemSku) \/ contains(row[2], s_Item))

\* The header search with header_row_idx starting at 0 instead of None.
find_header_default_0(rs) ==
  IF \E k \in 1..Len(rs) : is_header(rs[k])
  THEN (CHOOSE k \in 1..Len(rs) :
          is_header(rs[k]) /\ \A j \in 1..(k - 1) : ~is_header(rs[j])) - 1
  ELSE 0

\* The header search: the 0-based index of the first header row, or None.
find_header(rs) ==
  IF \E k \in 1..Len(rs) : is_header(rs[k])
  THEN (CHOOSE k \in 1..Len(rs) :
          is_header(rs[k]) /\ \A j \in 1..(k - 1) : ~is_header(rs[j])) - 1
  ELSE None

\* The length test off by one: "if len(row) < 1".
is_short_off_by_one(row) == Len(row) < 1

\* "if len(row) < 2: continue"
is_short(row) == Len(row) < 2

first_col(row) == IF row[1] # <<>> THEN strip(row[1]) ELSE <<>>

\* sku_col with the strip() left out.
sku_col_unstripped(row) == IF Len(row) > 1 /\ row[2] # <<>> THEN row[2] ELSE <<>>

sku_col(row) == IF Len(row) > 1 /\ row[2] # <<>> THEN strip(row[2]) ELSE <<>>

\* The label a category or subcategory row stores.
label_of(row) == strip(replace_newlines(first_col(row)))

\* Cell k (0-based) trimmed, or "" when the row is too short.
text_cell(row, k) == IF Len(row) > k THEN strip(row[k + 1]) ELSE <<>>

\* Cell k (0-based) as a quantity; an absent column reads as "0".
quantity(row, k) == parse_int(IF Len(row) > k THEN row[k + 1] ELSE <<"0">>)

\* spec_url with the startswith("http") test left out.
spec_url_of_any_scheme(row) ==
  IF Len(row) > 11
  THEN LET raw_spec == strip(row[12])
       IN  IF raw_spec # <<>> /\ raw_spec # s_NA THEN raw_spec ELSE <<>>
  ELSE <<>>

spec_url_of(row) ==
  IF Len(row) > 11
  THEN LET raw_spec == strip(row[12])
       IN  IF raw_spec # <<>> /\ raw_spec # s_NA /\ startswith(raw_spec, s_http)
           THEN raw_spec
           ELSE <<>>
  ELSE <<>>

\* category with the subcategory label preferred to the category label.
category_of_subcategory_first(category, subcategory) ==
  IF subcategory # <<>> THEN map_category(subcategory) ELSE map_category(category)

\* The category of a product emitted under the two labels in force.
category_of(category, subcategory) ==
  IF category # <<>> THEN map_category(category) ELSE map_category(subcategory)

\* The product dict built for a row with a SKU.
product_of(row, category, subcategory) ==
  [sku |-> sku_col(row),
   description |-> text_cell(row, 2),
   wattage |-> text_cell(row, 3),
   category |-> category_of(category, subcategory),
   subcategory |-> subcategory,
   ontario |-> quantity(row, 4),
   louisville |-> quantity(row, 5),
   phoenix |-> quantity(row, 6),
   dallas |-> quantity(row, 7),
   chicago |-> quantity(row, 8),
   total |-> quantity(row, 9),
   notes |-> text_cell(row, 10),
   spec_url |-> spec_url_of(row)]

\* A main category row that forgets to reset the subcategory.
after_category_row_no_reset(row, subcategory) ==
  [current_category |-> label_of(row), current_subcategory |-> subcategory]

\* The two labels after a main category row (subcategory: the one before it).
after_category_row(row, subcategory) ==
  [current_category |-> label_of(row), current_subcategory |-> <<>>]

\* A subcategory + product row that emits before it stores its label.
subcategory_at_stale(row, subcategory) == subcategory

\* The subcategory in force when a row with a SKU emits its product.
subcategory_at(row, subcategory) ==
  IF first_col(row) # <<>> /\ sku_col(row) # <<>> THEN label_of(row)
  ELSE subcategory

(* ------------------------------ main ----------------------------------- *)

\* fetch_sheet_csv returning what it has read when an exception is caught.
fetch_sheet_csv_keeps_body(response) == Text(response.body)

\* fetch_sheet_csv: the decoded body, or None when urlopen, read or decode
\* raised.
fetch_sheet_csv(response) ==
  IF response.raised THEN NoData ELSE Text(response.body)

\* "not csv_content": None and the empty text are both falsy.
is_falsy(content) == content.is_none \/ content.rows = <<>>

\* The clearance tab of all_data (the two timestamps are left out).
all_data(prods) ==
  [written |-> TRUE,
   name |-> s_ClearanceStock,
   products |-> prods,
   count |-> Len(prods)]

\* clearance_data.json as this run finds it.
UntouchedFile ==
  [written |-> FALSE, name |-> <<>>, products |-> <<>>, count |-> 0]

(* ----------------------------- inputs ---------------------------------- *)

\* Rows of every kind the row loop distinguishes: a one-cell row with a label,
\* a blank row, a header row (met again after the header it is handled as a
\* subcategory + product row), a main category row, a subcategory + product
\* row and a product row.
StructRows ==
  { << <<"A", "L", "2">> >>,
    << <<" ">>, <<" ">> >>,
    << <<"A", "L", "2", " ", "K", "i", "t", "s">>, s_ItemSku >>,
    << <<"L", "S", "F", "A", "\n", "S", "e", "r", "i", "e", "s", " ">>, <<" ">> >>,
    << <<" ", "O", "d", "d", "\n", "L", "o", "t">>, <<" ", "K", "2", " ">> >>,
    << <<" ">>, <<"K", "4">> >> }

\* Every sheet of at most MaxRows of these rows, the empty sheet included.
StructSheets == UNION { [1..n -> StructRows] : n \in 0..MaxRows }

HeaderRow == << <<"C", "o", "l", " ", "A">>, <<" ">> \o s_Item >>

RECURSIVE upper(_)
upper(s) ==
  IF s = <<>> THEN <<>>
  ELSE LET c == Head(s)
       IN  <<IF \E k \in 1..Len(LowerCase) : LowerCase[k] = c
             THEN UpperCase[CHOOSE k \in 1..Len(LowerCase) : LowerCase[k] = c]
             ELSE c>> \o upper(Tail(s))

\* Labels: every alias as declared, in lower and in upper case, and some texts
\* that hold no alias, each alone, after a prefix and before a suffix (one
\* suffix holds a later alias, LSFA).
LabelCores ==
  UNION { {CATEGORY_MAP[k].key, lower(CATEGORY_MAP[k].key),
           upper(CATEGORY_MAP[k].key)} : k \in 1..Len(CATEGORY_MAP) }
  \cup { <<"M", "i", "s", "c">>,
         <<"A", "L">>,
         <<"A", "r", "e", "a", " ", " ", "L", "i", "g", "h", "t">>,
         <<"A", "c", "c", "e", "s", "s", "o", "r", "y">> }

Labels ==
  { pre \o core \o suf :
      pre \in { <<>>, <<"X", "-">> },
      core \in LabelCores,
      suf \in { <<>>, <<"s">>, <<" ", "L", "S", "F", "A">> } }

\* A label as a category row (an empty row follows it), or as the subcategory
\* of the first product.
LabelSheets ==
  { << HeaderRow, <<l, <<>> >>, <<>>, << <<>>, <<"K", "3">> >> >> : l \in Labels }
  \cup { << HeaderRow, <<l, <<"K", "1">> >> >> : l \in Labels }

QtyChars == {"0", "1", "7", ",", " ", "-", "+", "_", "a"}

\* Quantity cells: every text of at most MaxQtyLen of these characters, and
\* some longer ones.
QtyCells ==
  UNION { [1..n -> QtyChars] : n \in 0..MaxQtyLen }
  \cup { <<"1", ",", "2", "3", "4">>,
         <<" ", "4", "2", " ">>,
         <<"a", "b", "c">>,
         <<"1", "_", "_", "0">>,
         <<"+", "-", "1">>,
         <<"-", " ", "1", "7">>,
         <<"1", "_", "0", "0", "0">>,
         <<"-", "1", ",", "0", "0", "0">>,
         <<"1", ".", "5">> }

UrlCells ==
  { <<>>,
    <<" ">>,
    s_NA,
    <<"h", "t", "t", "p", ":", "/", "/", "x">>,
    <<" ", "h", "t", "t", "p", "s", ":", "/", "/", "y", " ">>,
    <<"f", "t", "p", ":", "/", "/", "z">>,
    <<"h", "t", "t">>,
    <<"H", "T", "T", "P", ":", "/", "/", "X">>,
    <<"#", "N", "/", "A", " ", "h", "t", "t", "p">>,
    <<"x", "h", "t", "t", "p">> }

\* A product row with all twelve columns.
FullRow ==
  << <<>>, <<"K", "9">>, <<"D", "e", "s", "c">>, <<"1", "0", "W">>,
     <<"1">>, <<"2">>, <<"3">>, <<"4">>, <<"5">>, <<"1", "5">>,
     <<"n", "o", "t", "e">>, <<"h", "t", "t", "p", ":", "/", "/", "x">> >>

\* FullRow with one cell replaced, or cut short.
CellRows ==
  { [FullRow EXCEPT ![k + 1] = q] : k \in 4..9, q \in QtyCells }
  \cup { [FullRow EXCEPT ![12] = u] : u \in UrlCells }
  \cup { SubSeq(FullRow, 1, n) : n \in 2..Len(FullRow) }

CellSheets == { << HeaderRow, r >> : r \in CellRows }

\* The texts the sheet export can hold.
Sheets == StructSheets \cup LabelSheets \cup CellSheets

\* What can go wrong inside the try block of fetch_sheet_csv.
FetchErrors == {"URLError", "timeout", "UnicodeDecodeError"}

(* --------------------------- state machine ----------------------------- *)

VARIABLES
  sheet,                \* the text the export URL serves (its rows)
  pc,                   \* where main is
  csv_content,          \* main's csv_content
  rows,                 \* parse_clearance_csv: rows
  header_row_idx,       \* parse_clearance_csv: header_row_idx (0-based)
  next_row,             \* position of the row loop (1-based) in rows
  current_category,
  current_subcategory,
  products,
  emitted_from,         \* history: for each product, the position of its row
  calls,                \* history: the functions main has called
  fetch_failed,         \* history: something was raised inside fetch_sheet_csv
  clearance_data_json,  \* the output file
  exit_status           \* main's return value, None while it runs

vars ==
  <<sheet, pc, csv_content, rows, header_row_idx, next_row, current_category,
    current_subcategory, products, emitted_from, calls, fetch_failed,
    clearance_data_json, exit_status>>

parse_vars ==
  <<rows, header_row_idx, next_row, current_category, current_subcategory,
    products, emitted_from>>

Init ==
  /\ sheet \in Sheets
  /\ pc = "fetch"
  /\ csv_content = NoData
  /\ rows = <<>>
  /\ header_row_idx = None
  /\ next_row = 0
  /\ current_category = <<>>
  /\ current_subcategory = <<>>
  /\ products = <<>>
  /\ emitted_from = <<>>
  /\ calls = {}
  /\ fetch_failed = FALSE
  /\ clearance_data_json = UntouchedFile
  /\ exit_status = None

\* fetch_sheet_csv returns the decoded body.
FetchOk ==
  /\ pc = "fetch"
  /\ csv_content' =
       fetch_sheet_csv([raised |-> FALSE, error |-> "", body |-> sheet])
  /\ calls' = calls \cup {"fetch_sheet_csv"}
  /\ pc' = "fetched"
  /\ UNCHANGED <<sheet, parse_vars, fetch_failed, clearance_data_json,
                 exit_status>>

\* urlopen, read or decode raises inside fetch_sheet_csv.
FetchFails ==
  /\ pc = "fetch"
  /\ \E e \in FetchErrors :
       /\ csv_content' =
            fetch_sheet_csv([raised |-> TRUE, error |-> e, body |-> sheet])
       /\ fetch_failed' = TRUE
  /\ calls' = calls \cup {"fetch_sheet_csv"}
  /\ pc' = "fetched"
  /\ UNCHANGED <<sheet, parse_vars, clearance_data_json, exit_status>>

\* "if not csv_content: return 1"
MainFailed ==
  /\ pc = "fetched"
  /\ is_falsy(csv_content)
  /\ exit_status' = 1
  /\ pc' = "done"
  /\ UNCHANGED <<sheet, csv_content, parse_vars, calls, fetch_failed,
                 clearance_data_json>>

\* parse_clearance_csv finds no header row and returns [].
HeaderNotFound ==
  /\ pc = "fetched"
  /\ ~is_falsy(csv_content)
  /\ find_header(csv_content.rows) = None
  /\ rows' = csv_content.rows
  /\ header_row_idx' = None
  /\ products' = <<>>
  /\ calls' = calls \cup {"parse_clearance_csv"}
  /\ pc' = "parsed"
  /\ UNCHANGED <<sheet, csv_content, next_row, current_category,
                 current_subcategory, emitted_from, fetch_failed,
                 clearance_data_json, exit_status>>

\* parse_clearance_csv finds the header row and enters the row loop.
HeaderFound ==
  /\ pc = "fetched"
  /\ ~is_falsy(csv_content)
  /\ find_header(csv_content.rows) # None
  /\ rows' = csv_content.rows
  /\ header_row_idx' = find_header(csv_content.rows)
  /\ next_row' = header_row_idx' + 2
  /\ products' = <<>>
  /\ current_category' = <<>>
  /\ current_subcategory' = <<>>
  /\ calls' = calls \cup {"parse_clearance_csv"}
  /\ pc' = "rows"
  /\ UNCHANGED <<sheet, csv_content, emitted_from, fetch_failed,
                 clearance_data_json, exit_status>>

InLoop == pc = "rows" /\ next_row <= Len(rows)

\* A row of fewer than two cells.
SkipShortRow ==
  /\ InLoop
  /\ is_short(rows[next_row])
  /\ next_row' = next_row + 1
  /\ UNCHANGED <<sheet, pc, csv_content, rows, header_row_idx, current_category,
                 current_subcategory, products, emitted_from, calls,
                 fetch_failed, clearance_data_json, exit_status>>

\* A row with neither a label nor a SKU.
SkipBlankRow ==
  /\ InLoop
  /\ ~is_short(rows[next_row])
  /\ first_col(rows[next_row]) = <<>>
  /\ sku_col(rows[next_row]) = <<>>
  /\ next_row' = next_row + 1
  /\ UNCHANGED <<sheet, pc, csv_content, rows, header_row_idx, current_category,
                 current_subcategory, products, emitted_from, calls,
                 fetch_failed, clearance_data_json, exit_status>>

\* Main category row: a label and no SKU.
CategoryRow ==
  /\ InLoop
  /\ ~is_short(rows[next_row])
  /\ first_col(rows[next_row]) # <<>>
  /\ sku_col(rows[next_row]) = <<>>
  /\ LET after == after_category_row(rows[next_row], current_subcategory)
     IN  /\ current_category' = after.current_category
         /\ current_subcategory' = after.current_subcategory
  /\ next_row' = next_row + 1
  /\ UNCHANGED <<sheet, pc, csv_content, rows, header_row_idx, products,
                 emitted_from, calls, fetch_failed, clearance_data_json,
                 exit_status>>

\* Subcategory + product row: a label and a SKU.
SubcategoryProductRow ==
  /\ InLoop
  /\ ~is_short(rows[next_row])
  /\ first_col(rows[next_row]) # <<>>
  /\ sku_col(rows[next_row]) # <<>>
  /\ current_subcategory' = subcategory_at(rows[next_row], current_subcategory)
  /\ products' = Append(products,
                        product_of(rows[next_row], current_category,
                                   current_subcategory'))
  /\ emitted_from' = Append(emitted_from, next_row)
  /\ next_row' = next_row + 1
  /\ UNCHANGED <<sheet, pc, csv_content, rows, header_row_idx, current_category,
                 calls, fetch_failed, clearance_data_json, exit_status>>

\* Product row: a SKU and no label.
ProductRow ==
  /\ InLoop
  /\ ~is_short(rows[next_row])
  /\ first_col(rows[next_row]) = <<>>
  /\ sku_col(rows[next_row]) # <<>>
  /\ current_subcategory' = subcategory_at(rows[next_row], current_subcategory)
  /\ products' = Append(products,
                        product_of(rows[next_row], current_category,
                                   current_subcategory'))
  /\ emitted_from' = Append(emitted_from, next_row)
  /\ next_row' = next_row + 1
  /\ UNCHANGED <<sheet, pc, csv_content, rows, header_row_idx, current_category,
                 calls, fetch_failed, clearance_data_json, exit_status>>

\* The row loop ends and parse_clearance_csv returns products.
RowsDone ==
  /\ pc = "rows"
  /\ next_row > Len(rows)
  /\ pc' = "parsed"
  /\ UNCHANGED <<sheet, csv_content, parse_vars, calls, fetch_failed,
                 clearance_data_json, exit_status>>

\* main writes all_data to clearance_data.json.
WriteOutput ==
  /\ pc = "parsed"
  /\ clearance_data_json' = all_data(products)
  /\ calls' = calls \cup {"json.dump"}
  /\ pc' = "written"
  /\ UNCHANGED <<sheet, csv_content, parse_vars, fetch_failed, exit_status>>

\* "return 0"
MainSucceeded ==
  /\ pc = "written"
  /\ exit_status' = 0
  /\ pc' = "done"
  /\ UNCHANGED <<sheet, csv_content, parse_vars, calls, fetch_failed,
                 clearance_data_json>>

Next ==
  \/ FetchOk
  \/ FetchFails
  \/ MainFailed
  \/ HeaderNotFound
  \/ HeaderFound
  \/ SkipShortRow
  \/ SkipBlankRow
  \/ CategoryRow
  \/ SubcategoryProductRow
  \/ ProductRow
  \/ RowsDone
  \/ WriteOutput
  \/ MainSucceeded

Spec == Init /\ [][Next]_vars

TypeOK ==
  /\ pc \in {"fetch", "fetched", "rows", "parsed", "written", "done"}
  /\ exit_status \in {None, 0, 1}
  /\ Len(emitted_from) = Len(products)

(* ------------------- vocabulary of the properties ---------------------- *)

\* Positions (in rows) of the rows the row loop has handled so far.
Handled ==
  IF header_row_idx = None THEN {} ELSE (header_row_idx + 2)..(next_row - 1)

\* Cell k (1-based) of a row, trimmed; empty when the row has no such cell.
TrimmedCell(row, k) == IF Len(row) >= k THEN strip(row[k]) ELSE <<>>

\* What a row after the header is, by its first two cells.
Kind(row) ==
  IF Len(row) < 2 THEN "skip"
  ELSE IF TrimmedCell(row, 1) = <<>> /\ TrimmedCell(row, 2) = <<>> THEN "skip"
  ELSE IF TrimmedCell(row, 2) = <<>> THEN "category"
  ELSE IF TrimmedCell(row, 1) # <<>> THEN "subcategory"
  ELSE "product"

\* The label a row carries: its first cell trimmed, newlines turned into
\* spaces, trimmed again.
LabelOfRow(row) == strip(replace_newlines(strip(row[1])))

Largest(S) == CHOOSE m \in S : \A x \in S : x <= m

\* Position of the last category header row before position p, 0 if none.
LastCategoryRow(p) ==
  LET hs == { h \in (header_row_idx + 2)..(p - 1) : Kind(rows[h]) = "category" }
  IN  IF hs = {} THEN 0 ELSE Largest(hs)

\* Position of the last subcategory+product row at or before p that follows
\* the last category header row, 0 if none.
LastSubcategoryRow(p) ==
  LET from == IF LastCategoryRow(p) = 0 THEN header_row_idx + 2
              ELSE LastCategoryRow(p) + 1
      js == { j \in from..p : Kind(rows[j]) = "subcategory" }
  IN  IF js = {} THEN 0 ELSE Largest(js)

CategoryInForce(p) ==
  IF LastCategoryRow(p) = 0 THEN <<>> ELSE LabelOfRow(rows[LastCategoryRow(p)])

SubcategoryInForce(p) ==
  IF LastSubcategoryRow(p) = 0 THEN <<>>
  ELSE LabelOfRow(rows[LastSubcategoryRow(p)])

ProductIndexes == 1..Len(products)

(* ------------------------------- C1 ------------------------------------ *)

\* C1: every product has a non-empty sku, which is the trimmed second cell of
\* the row it was emitted from (in the parser's list and in the written
\* document); a handled row whose trimmed second cell is empty is the source
\* of no product.
SkuNonEmpty ==
  /\ \A k \in ProductIndexes :
       LET row == rows[emitted_from[k]]
       IN  /\ Len(row) >= 2
           /\ products[k].sku = strip(row[2])
           /\ products[k].sku # <<>>
  /\ \A p \in Handled :
       TrimmedCell(rows[p], 2) = <<>> => \A k \in ProductIndexes : emitted_from[k] # p
  /\ \A k \in 1..Len(clearance_data_json.products) :
       clearance_data_json.products[k].sku # <<>>

\* A finished run with a product whose SKU cell was padded and a handled row
\* whose SKU cell held only whitespace.
SkuNonEmptyWitness ==
  /\ pc = "done"
  /\ \E k \in ProductIndexes : rows[emitted_from[k]][2] # products[k].sku
  /\ \E p \in Handled :
       Len(rows[p]) >= 2 /\ rows[p][2] # <<>> /\ TrimmedCell(rows[p], 2) = <<>>

(* ------------------------------- C2 ------------------------------------ *)

\* C2: a category header row emits no product and leaves current_subcategory
\* empty, and a product emitted after a category header row with no
\* subcategory+product row in between (its own row included) has an empty
\* subcategory.
SubcategoryResetByCategoryRow ==
  /\ \A k \in ProductIndexes :
       LET p == emitted_from[k]
       IN  (\E h \in (header_row_idx + 2)..(p - 1) :
              /\ Kind(rows[h]) = "category"
              /\ \A j \in (h + 1)..p : Kind(rows[j]) # "subcategory")
           => products[k].subcategory = <<>>
  /\ \A p \in Handled :
       Kind(rows[p]) = "category"
       => /\ \A k \in ProductIndexes : emitted_from[k] # p
          /\ p = next_row - 1 => current_subcategory = <<>>

\* A product with an empty subcategory emitted after a category header row
\* that itself came after a subcategory+product row.
SubcategoryResetWitness ==
  /\ pc = "done"
  /\ \E k \in ProductIndexes :
       LET p == emitted_from[k]
       IN  /\ products[k].subcategory = <<>>
           /\ \E h \in (header_row_idx + 2)..(p - 1) :
                /\ Kind(rows[h]) = "category"
                /\ \A j \in (h + 1)..p : Kind(rows[j]) # "subcategory"
                /\ \E j \in (header_row_idx + 2)..(h - 1) :
                     Kind(rows[j]) = "subcategory"

(* ------------------------------- C3 ------------------------------------ *)

Letters == { UpperCase[i] : i \in 1..Len(UpperCase) }
             \cup { LowerCase[i] : i \in 1..Len(LowerCase) }

\* The other form, upper or lower case, of every letter.
OtherCase ==
  [c \in Letters |->
     LET i == CHOOSE j \in 1..Len(UpperCase) : c \in {UpperCase[j], LowerCase[j]}
     IN  IF c = UpperCase[i] THEN LowerCase[i] ELSE UpperCase[i]]

SameLetter(c, d) == c = d \/ (c \in Letters /\ OtherCase[c] = d)

\* Alias j occurs in x, letter case ignored.
AliasOccurs(j, x) ==
  LET alias == CATEGORY_MAP[j].key
  IN  \E off \in 0..(Len(x) - Len(alias)) :
        \A i \in 1..Len(alias) : SameLetter(x[off + i], alias[i])

AliasIndexes == 1..Len(CATEGORY_MAP)

\* The canonical name of the first alias, in declared order, that occurs in
\* x; x itself when none does.
FirstAliasResult(x) ==
  LET occurring == { j \in AliasIndexes : AliasOccurs(j, x) }
  IN  IF occurring = {} THEN x
      ELSE CATEGORY_MAP[CHOOSE j \in occurring :
                          \A i \in occurring : j <= i].value

\* The first cells of the sheet, as they are and as labels.
LabelsOfSheet ==
  UNION { {sheet[p][1], LabelOfRow(sheet[p])} :
            p \in { q \in 1..Len(sheet) : Len(sheet[q]) >= 1 } }

\* C3: map_category gives every label of the sheet the canonical name of the
\* first alias in declared order that occurs in it, letter case ignored, and
\* the label itself when no alias occurs (the sheet never changes, so this is
\* evaluated once per sheet, before the fetch); every product's category is
\* that result for the label in force at its row.
MapCategoryFirstAlias ==
  /\ pc = "fetch" => \A x \in LabelsOfSheet : map_category(x) = FirstAliasResult(x)
  /\ \A k \in ProductIndexes :
       LET p == emitted_from[k]
       IN  products[k].category =
             FirstAliasResult(IF CategoryInForce(p) # <<>>
                              THEN CategoryInForce(p)
                              ELSE SubcategoryInForce(p))

\* A product whose label holds two aliases with different canonical names,
\* the later declared one in a different letter case than declared.
MapCategoryWitness ==
  \E k \in ProductIndexes :
    LET p == emitted_from[k]
        x == IF CategoryInForce(p) # <<>> THEN CategoryInForce(p)
             ELSE SubcategoryInForce(p)
    IN  \E i, j \in AliasIndexes :
          /\ i < j
          /\ AliasOccurs(i, x)
          /\ AliasOccurs(j, x)
          /\ ~contains(x, CATEGORY_MAP[j].key)
          /\ CATEGORY_MAP[i].value # CATEGORY_MAP[j].value
          /\ products[k].category = CATEGORY_MAP[i].value
          /\ \A h \in 1..(i - 1) : ~AliasOccurs(h, x)

(* ------------------------------- C4 ------------------------------------ *)

\* No row's second cell contains "Item#".
NoItemCell(rs) ==
  \A j \in 1..Len(rs) : Len(rs[j]) < 2 \/ ~contains(rs[j][2], s_Item)

\* What the run comes to when parsing found nothing: no product in the
\* parser, and at the end status 0 and a written document with zero products
\* and count 0.
DegradedSuccess ==
  /\ products = <<>>
  /\ pc = "done" =>
       /\ exit_status = 0
       /\ clearance_data_json.written
       /\ clearance_data_json.products = <<>>
       /\ clearance_data_json.count = 0

\* C4 as stated: for any fetched content without an "Item#" cell the run ends
\* with status 0 and a written document with zero products.
MissingHeaderExits0 ==
  (~csv_content.is_none /\ NoItemCell(csv_content.rows)) => DegradedSuccess

\* C4 amended: the same for any non-empty fetched content.
MissingHeaderExits0IfNonEmpty ==
  (~csv_content.is_none /\ csv_content.rows # <<>> /\ NoItemCell(csv_content.rows))
  => DegradedSuccess

\* A finished run on a non-empty sheet that has rows with a SKU and no header.
MissingHeaderWitness ==
  /\ pc = "done"
  /\ ~csv_content.is_none
  /\ NoItemCell(csv_content.rows)
  /\ \E j \in 1..Len(csv_content.rows) : Kind(csv_content.rows[j]) = "subcategory"
  /\ exit_status = 0
  /\ clearance_data_json.written
  /\ clearance_data_json.count = 0

(* ------------------------------- C5 ------------------------------------ *)

\* C5: after a failed fetch csv_content is the no-data value, main goes
\* nowhere but to "return 1", the parser is never called and the file is as
\* the run found it; and a file that was written goes with exit status 0.
FetchFailureExits1 ==
  /\ fetch_failed =>
       /\ csv_content = NoData
       /\ pc \in {"fetched", "done"}
       /\ pc = "done" => exit_status = 1
       /\ "parse_clearance_csv" \notin calls
       /\ "json.dump" \notin calls
       /\ clearance_data_json = UntouchedFile
  /\ clearance_data_json # UntouchedFile =>
       /\ exit_status # 1
       /\ pc = "done" => exit_status = 0

\* A run that ended with status 1 after a failed fetch, on a sheet that has a
\* header row and a product row.
FetchFailureWitness ==
  /\ pc = "done"
  /\ fetch_failed
  /\ exit_status = 1
  /\ ~NoItemCell(sheet)
  /\ \E j \in 1..Len(sheet) : Kind(sheet[j]) = "product"

(* ------------------------------- C6 ------------------------------------ *)

\* The quantity fields and the (1-based) cells they are read from.
QuantityCell ==
  [ontario |-> 5, louisville |-> 6, phoenix |-> 7, dallas |-> 8, chicago |-> 9,
   total |-> 10]

KeptByCleaning(c) == c # "," /\ c \notin Whitespace

\* A cell without its commas and whitespace.
CleanedCell(cell) == SelectSeq(cell, KeptByCleaning)

Unsigned(t) == IF t # <<>> /\ t[1] \in {"+", "-"} THEN Tail(t) ELSE t

\* An optional sign, then digits with single underscores between digits.
IsIntegerText(t) ==
  LET b == Unsigned(t)
  IN  /\ b # <<>>
      /\ is_digit(b[1])
      /\ is_digit(b[Len(b)])
      /\ \A i \in 1..Len(b) : is_digit(b[i]) \/ b[i] = "_"
      /\ \A i \in 1..(Len(b) - 1) : ~(b[i] = "_" /\ b[i + 1] = "_")

\* The number a sequence of digits denotes.
RECURSIVE Magnitude(_)
Magnitude(d) ==
  IF d = <<>> THEN 0
  ELSE 10 * Magnitude(SubSeq(d, 1, Len(d) - 1)) + digit_value(d[Len(d)])

\* The number in cell col of row: 0 when the cell is absent or, cleaned, is
\* not an integer text.
NumberInCell(row, col) ==
  IF Len(row) < col THEN 0
  ELSE LET t == CleanedCell(row[col])
       IN  IF ~IsIntegerText(t) THEN 0
           ELSE IF t[1] = "-" THEN 0 - Magnitude(SelectSeq(t, is_digit))
           ELSE Magnitude(SelectSeq(t, is_digit))

\* C6 as stated: every quantity is a non-negative integer, 0 for an absent
\* column, an empty cell and content that is not an integer.
QuantitiesNonNegative ==
  \A k \in ProductIndexes : \A f \in DOMAIN QuantityCell :
    LET row == rows[emitted_from[k]]
        col == QuantityCell[f]
    IN  /\ products[k][f] \in Nat
        /\ (Len(row) < col \/ ~IsIntegerText(CleanedCell(row[col])))
           => products[k][f] = 0

\* C6 amended: every quantity is an integer, the number its cell holds once
\* commas and whitespace are removed, 0 for an absent column, an empty cell
\* and content that is not an integer; it is negative only when the cleaned
\* cell begins with a minus sign.
QuantitiesAreIntegers ==
  \A k \in ProductIndexes : \A f \in DOMAIN QuantityCell :
    LET row == rows[emitted_from[k]]
        col == QuantityCell[f]
    IN  /\ products[k][f] \in Int
        /\ products[k][f] = NumberInCell(row, col)
        /\ (Len(row) < col \/ ~IsIntegerText(CleanedCell(row[col])))
           => products[k][f] = 0
        /\ products[k][f] < 0 => Len(row) >= col /\ Head(CleanedCell(row[col])) = "-"

\* A product with a negative quantity read from a cell that holds a comma.
QuantitiesWitness ==
  \E k \in ProductIndexes : \E f \in DOMAIN QuantityCell :
    LET row == rows[emitted_from[k]]
        col == QuantityCell[f]
    IN  /\ Len(row) >= col
        /\ CleanedCell(row[col]) # row[col]
        /\ products[k][f] < 0

(* ------------------------------- C7 ------------------------------------ *)

StartsWithHttp(t) ==
  Len(t) >= 4 /\ t[1] = "h" /\ t[2] = "t" /\ t[3] = "t" /\ t[4] = "p"

\* C7: spec_url is empty or begins with "http"; it is the trimmed cell 11
\* when that cell is present, non-empty, not "#N/A" and begins with "http",
\* and empty otherwise.
SpecUrlEmptyOrHttp ==
  \A k \in ProductIndexes :
    LET row == rows[emitted_from[k]]
        url == products[k].spec_url
        kept == /\ Len(row) >= 12
                /\ strip(row[12]) # <<>>
                /\ strip(row[12]) # s_NA
                /\ StartsWithHttp(strip(row[12]))
    IN  /\ url = <<>> \/ StartsWithHttp(url)
        /\ kept => url = strip(row[12])
        /\ ~kept => url = <<>>

\* A product of a row whose cell 11 is "#N/A".
SpecUrlWitness ==
  \E k \in ProductIndexes :
    LET row == rows[emitted_from[k]]
    IN  Len(row) >= 12 /\ row[12] = s_NA /\ products[k].spec_url = <<>>

(* ------------------------------- C8 ------------------------------------ *)

\* C8: a product emitted after some category header row has the mapped label
\* of the last such row as its category, whatever subcategory is in force; a
\* product emitted before any category header row has the mapped subcategory
\* in force.
CategoryLabelFirst ==
  \A k \in ProductIndexes :
    LET p == emitted_from[k]
    IN  /\ LastCategoryRow(p) # 0 =>
             /\ CategoryInForce(p) # <<>>
             /\ products[k].category = map_category(CategoryInForce(p))
        /\ LastCategoryRow(p) = 0 =>
             products[k].category = map_category(SubcategoryInForce(p))

\* A product after a category header row, under a subcategory that maps to
\* another category than the category label does.
CategoryLabelFirstWitness ==
  \E k \in ProductIndexes :
    LET p == emitted_from[k]
    IN  /\ LastCategoryRow(p) # 0
        /\ SubcategoryInForce(p) # <<>>
        /\ map_category(SubcategoryInForce(p)) # map_category(CategoryInForce(p))
        /\ products[k].subcategory = SubcategoryInForce(p)

(* ------------------------------- C9 ------------------------------------ *)

\* C9: the product of a subcategory+product row has that row's label as its
\* subcategory, and the product of a SKU-only row has the subcategory of the
\* product of the last subcategory+product row since the last category header
\* row.
SubcategoryCarriedForward ==
  \A k \in ProductIndexes :
    LET p == emitted_from[k]
    IN  /\ Kind(rows[p]) = "subcategory" =>
             products[k].subcategory = LabelOfRow(rows[p])
        /\ (Kind(rows[p]) = "product" /\ LastSubcategoryRow(p) # 0) =>
             \E j \in 1..(k - 1) :
               /\ emitted_from[j] = LastSubcategoryRow(p)
               /\ products[k].subcategory = products[j].subcategory

\* A subcategory+product row followed immediately by a SKU-only row: two
\* products with the same non-empty subcategory.
SubcategoryCarriedWitness ==
  \E k \in ProductIndexes :
    /\ k > 1
    /\ emitted_from[k - 1] = emitted_from[k] - 1
    /\ Kind(rows[emitted_from[k - 1]]) = "subcategory"
    /\ Kind(rows[emitted_from[k]]) = "product"
    /\ products[k].subcategory # <<>>
    /\ products[k].subcategory = products[k - 1].subcategory

(* ------------------------------- C10 ----------------------------------- *)

\* C10: the step of the row loop on a row with fewer than 2 cells, or with
\* empty first and second cells after trimming, only moves on to the next
\* row: the products and both labels stay as they are.
SkippedRowChangesNothing ==
  [][(pc = "rows" /\ next_row <= Len(rows) /\ Kind(rows[next_row]) = "skip")
     => /\ products' = products
        /\ emitted_from' = emitted_from
        /\ current_category' = current_category
        /\ current_subcategory' = current_subcategory
        /\ next_row' = next_row + 1
        /\ pc' = pc]_vars

\* A finished run that handled a one-cell row carrying a label, after a
\* category header row and before a product.
SkippedRowWitness ==
  /\ pc = "done"
  /\ \E p \in Handled :
       /\ Len(rows[p]) = 1
       /\ strip(rows[p][1]) # <<>>
       /\ LastCategoryRow(p) # 0
       /\ \E k \in ProductIndexes : emitted_from[k] > p

====
